---- MODULE Spec2Model ----
(***************************************************************************)
(* Model of the Communication chaincode (src/main.go): the message notice *)
(* index kept in the public world state, the per-sender private mailbox   *)
(* collections, and the ledger's simulate / validate / commit cycle the   *)
(* chaincode runs under.                                                   *)
(*                                                                         *)
(* Go strings and byte slices are sequences of one-character strings, so  *)
(* that key construction, key splitting, prefix scans and the "+MSP"      *)
(* concatenations are computed rather than assumed.                        *)
(***************************************************************************)
EXTENDS Integers, Sequences, FiniteSets, TLC

VARIABLES
    state,      \* public world state: composite key -> [value, version]
    pdata,      \* private data: <<collection, key>> -> [value, version]
    inflight,   \* simulated transactions waiting for validation and commit, one per client
    ntx,        \* number of transactions simulated so far
    height,     \* number of transactions committed as valid so far
    resp,       \* the response being delivered to a client, or NoResponse
    sent,       \* history: <<sender, receiver>> -> the committed sends, in commit order
    fresh,      \* history: <<receiver, sender>> -> a send committed after the last drain that returned sender
    sinceRead   \* history: <<receiver, sender>> -> committed sends since the last committed scan of receiver (up to 2)

vars == <<state, pdata, inflight, ntx, height, resp, sent, fresh, sinceRead>>

-----------------------------------------------------------------------------
(* Bounds of the model *)

MaxTx == 3
MaxSeqTx == 5

-----------------------------------------------------------------------------
(* Strings *)

NUL == "\\x00"
Nil == "nil"                    \* a nil error, or nil bytes where bytes are a string
NilBytes == [nil |-> TRUE]      \* nil bytes where bytes encode a record; an absent input
NoResponse == [kind |-> "none"]

org1 == <<"1">>
org2 == <<"2">>
org10 == <<"1", "0">>

Orgs == {org1, org2, org10}
SenderNames == {org1, org2}
ReceiverNames == {org1, org10}

Rank(c) ==
    CASE c = NUL -> 0
      [] c = "0" -> 48
      [] c = "1" -> 49
      [] c = "2" -> 50
      [] c = "m" -> 109
      [] c = "n" -> 110
      [] OTHER -> 255

RECURSIVE LexLess(_, _)
LexLess(a, b) ==
    IF Len(b) = 0 THEN FALSE
    ELSE IF Len(a) = 0 THEN TRUE
    ELSE IF Rank(Head(a)) # Rank(Head(b)) THEN Rank(Head(a)) < Rank(Head(b))
    ELSE LexLess(Tail(a), Tail(b))

HasPrefix(k, p) == Len(p) <= Len(k) /\ SubSeq(k, 1, Len(p)) = p

MSPID(org) == org \o <<"M", "S", "P">>
Collection(sender) == sender \o <<"M", "S", "P", "C", "o", "l", "l", "e", "c", "t", "i", "o", "n">>

MSPIDs == {MSPID(o) : o \in Orgs}

-----------------------------------------------------------------------------
(* Composite keys *)

mn == <<"m", "n">>

RECURSIVE JoinAttributes(_)
JoinAttributes(attrs) ==
    IF Len(attrs) = 0 THEN <<>>
    ELSE Head(attrs) \o <<NUL>> \o JoinAttributes(Tail(attrs))

CreateCompositeKey(objectType, attrs) ==
    <<NUL>> \o objectType \o <<NUL>> \o JoinAttributes(attrs)

\* components of key[from..], a component ending at each NUL
RECURSIVE SplitFrom(_, _, _)
SplitFrom(key, componentIndex, i) ==
    IF i > Len(key) THEN <<>>
    ELSE IF key[i] = NUL
         THEN <<SubSeq(key, componentIndex, i - 1)>> \o SplitFrom(key, i + 1, i + 1)
         ELSE SplitFrom(key, componentIndex, i + 1)

\* keyPart of SplitCompositeKey (the attributes; Go index k is keyPart[k + 1] here)
SplitCompositeKey(key) == Tail(SplitFrom(key, 2, 2))

-----------------------------------------------------------------------------
(* The stub: reads go to the committed state and are recorded with the     *)
(* version read; writes are buffered in the write set, last write wins.    *)

Version(db, key) == IF key \in DOMAIN db THEN db[key].version ELSE 0

EmptySim == [rset |-> {}, rqs |-> {}, wset |-> <<>>, prset |-> {}, pwset |-> <<>>]

Put(f, key, value) == [k \in DOMAIN f \cup {key} |-> IF k = key THEN value ELSE f[k]]

GetState(key) == IF key \in DOMAIN state THEN state[key].value ELSE Nil
ReadState(sim, key) ==
    [sim EXCEPT !.rset = @ \cup {[key |-> key, version |-> Version(state, key)]}]
PutState(sim, key, value) == [sim EXCEPT !.wset = Put(@, key, value)]

GetPrivateData(collection, key) ==
    IF <<collection, key>> \in DOMAIN pdata THEN pdata[<<collection, key>>].value ELSE NilBytes
ReadPrivateData(sim, collection, key) ==
    [sim EXCEPT !.prset = @ \cup {[key |-> <<collection, key>>,
                                   version |-> Version(pdata, <<collection, key>>)]}]
PutPrivateData(sim, collection, key, value) ==
    [sim EXCEPT !.pwset = Put(@, <<collection, key>>, value)]

RECURSIVE SortKeys(_)
SortKeys(S) ==
    IF S = {} THEN <<>>
    ELSE LET least == CHOOSE k \in S : \A j \in S \ {k} : LexLess(k, j)
         IN <<least>> \o SortKeys(S \ {least})

\* the (key, value, version) items of a partial composite key range, in key order
ScanItems(objectType, attrs) ==
    LET startKey == CreateCompositeKey(objectType, attrs)
        keys == SortKeys({k \in DOMAIN state : HasPrefix(k, startKey)})
    IN [i \in 1..Len(keys) |->
          [key |-> keys[i], value |-> state[keys[i]].value, version |-> state[keys[i]].version]]

GetStateByPartialCompositeKey(sim, objectType, attrs) ==
    [sim EXCEPT !.rqs = @ \cup
        {[objectType |-> objectType, attrs |-> attrs,
          results |-> [i \in 1..Len(ScanItems(objectType, attrs)) |->
                          [key |-> ScanItems(objectType, attrs)[i].key,
                           version |-> ScanItems(objectType, attrs)[i].version]]]}]

-----------------------------------------------------------------------------
(* CreateMessageNotice *)

ErrReadNotice == "failed to read message notice"
ErrPutValue == "failed to put value"

\* faulty variant: the key names the sender first
CreateMessageNotice_SenderFirst(sim, sender, receiver) ==
    LET key == CreateCompositeKey(mn, <<sender, receiver>>)
        messageNoticeBytes == GetState(key)
        sim1 == ReadState(sim, key)
    IN IF messageNoticeBytes = "1"
       THEN sim1
       ELSE PutState(sim1, key, "1")

\* faulty variant: a notice that exists is left as it is, read or unread
CreateMessageNotice_KeepsRead(sim, sender, receiver) ==
    LET key == CreateCompositeKey(mn, <<receiver, sender>>)
        messageNoticeBytes == GetState(key)
        sim1 == ReadState(sim, key)
    IN IF messageNoticeBytes # Nil
       THEN sim1
       ELSE PutState(sim1, key, "1")

\* faulty variant: the notice is written whatever its state
CreateMessageNotice_AlwaysWrites(sim, sender, receiver) ==
    LET key == CreateCompositeKey(mn, <<receiver, sender>>)
        sim1 == ReadState(sim, key)
    IN PutState(sim1, key, "1")

CreateMessageNotice(sim, sender, receiver) ==
    LET key == CreateCompositeKey(mn, <<receiver, sender>>)
        messageNoticeBytes == GetState(key)
        sim1 == ReadState(sim, key)
    IN IF messageNoticeBytes = "1"
       THEN sim1
       ELSE PutState(sim1, key, "1")

\* CreateMessageNotice when the stub call `failing` returns an error, if the
\* call is made; [err, sim]
CreateMessageNoticeErr(sim, sender, receiver, failing) ==
    LET key == CreateCompositeKey(mn, <<receiver, sender>>)
        messageNoticeBytes == GetState(key)
        sim1 == ReadState(sim, key)
    IN IF failing = "GetState"
       THEN [err |-> ErrReadNotice, sim |-> sim]
       ELSE IF messageNoticeBytes = "1"
       THEN [err |-> Nil, sim |-> sim1]
       ELSE IF failing = "PutState"
       THEN [err |-> ErrPutValue, sim |-> sim1]
       ELSE [err |-> Nil, sim |-> PutState(sim1, key, "1")]

-----------------------------------------------------------------------------
(* ReadMessageNotice *)

\* one iteration of the loop over the scan results; acc = [sim, senders]
DrainItem(acc, receiver, item) ==
    LET keyPart == SplitCompositeKey(item.key)
    IN IF item.value = "1"
       THEN LET sender == keyPart[2]
                key == CreateCompositeKey(mn, <<receiver, sender>>)
            IN [sim |-> PutState(acc.sim, key, "0"),
                senders |-> Append(acc.senders, sender)]
       ELSE LET sender == keyPart[1]
            IN [sim |-> acc.sim, senders |-> Append(acc.senders, sender)]

RECURSIVE DrainLoop(_, _, _, _)
DrainLoop(acc, receiver, rs, i) ==
    IF i > Len(rs) THEN acc
    ELSE DrainLoop(DrainItem(acc, receiver, rs[i]), receiver, rs, i + 1)

\* [err, sim, result]
ReadMessageNotice(caller, receiver) ==
    LET rs == ScanItems(mn, <<receiver>>)
        sim == GetStateByPartialCompositeKey(EmptySim, mn, <<receiver>>)
        out == DrainLoop([sim |-> sim, senders |-> <<>>], receiver, rs, 1)
    IN [err |-> Nil, sim |-> out.sim, result |-> out.senders]

-----------------------------------------------------------------------------
(* CreateConfidentialMessageBySender *)

ErrNoTransient == "message not found in the transient map"
ErrSender == "sender field must be a non-empty string"
ErrReceivers == "receivers field must be a non-empty string"
ErrMessage == "message field must be a non-empty string"
ErrNote == "note field must be a non-empty string"
ErrSenderMismatch == "sender and client MSPID is not match"
ErrPeerMismatch == "client is not authorized to read or write private data from an org peer"
ErrReceiverMismatch == "receiver and client MSPID is not match"
ErrNoMessage == "there is no messgae"
ErrGetMessage == "Failed to get message"
ErrPutMarble == "failed to put Marble"
ErrCreateNotice == "failed to create message notice"

ValidationErrors == {ErrNoTransient, ErrSender, ErrReceivers, ErrMessage, ErrNote}
AuthorizationErrors == {ErrSenderMismatch, ErrPeerMismatch, ErrReceiverMismatch}
StorageErrors == {ErrGetMessage, ErrPutMarble, ErrCreateNotice}

\* the stub calls of the send loop, each of which may return an error
StubCalls == {"GetPrivateData", "PutPrivateData", "GetState", "PutState"}

\* faulty variant: the node's organization is not compared with the caller's
verifyClientOrgMatchesPeerOrg_AnyPeer(clientMSPID, peerMSPID) ==
    Nil

verifyClientOrgMatchesPeerOrg(clientMSPID, peerMSPID) ==
    IF clientMSPID # peerMSPID THEN ErrPeerMismatch ELSE Nil

\* faulty variant: the record read is dropped, the new record holds the new message alone
AppendMessage_Overwrites(oldMessage, messageInput) ==
    [messages |-> <<messageInput.Message>>,
     notes |-> <<messageInput.Note>>]

\* faulty variant: the note is kept only for the first message of a record
AppendMessage_DropsNote(oldMessage, messageInput) ==
    IF oldMessage # NilBytes
    THEN [messages |-> Append(oldMessage.Messages, messageInput.Message),
          notes |-> oldMessage.Notes]
    ELSE [messages |-> <<messageInput.Message>>,
          notes |-> <<messageInput.Note>>]

\* the messages and notes written for a receiver, from the record read
AppendMessage(oldMessage, messageInput) ==
    IF oldMessage # NilBytes
    THEN [messages |-> Append(oldMessage.Messages, messageInput.Message),
          notes |-> Append(oldMessage.Notes, messageInput.Note)]
    ELSE [messages |-> <<messageInput.Message>>,
          notes |-> <<messageInput.Note>>]

\* faulty variant: the record is written without being read through the stub
SendToReceiver_BlindWrite(sim, messageInput, i) ==
    LET collection == Collection(messageInput.Sender)
        newMessage == [Sender |-> messageInput.Sender,
                       Receiver |-> messageInput.Receivers[i],
                       Messages |-> <<messageInput.Message>>,
                       Notes |-> <<messageInput.Note>>]
        sim2 == PutPrivateData(sim, collection, messageInput.Receivers[i], newMessage)
    IN CreateMessageNotice(sim2, newMessage.Sender, newMessage.Receiver)

\* faulty variant: every sender's records are kept in one collection
SendToReceiver_OneCollection(sim, messageInput, i) ==
    LET collection == Collection(<<>>)
        oldMessage == GetPrivateData(collection, messageInput.Receivers[i])
        sim1 == ReadPrivateData(sim, collection, messageInput.Receivers[i])
        appended == AppendMessage(oldMessage, messageInput)
        newMessage == [Sender |-> messageInput.Sender,
                       Receiver |-> messageInput.Receivers[i],
                       Messages |-> appended.messages,
                       Notes |-> appended.notes]
        sim2 == PutPrivateData(sim1, collection, messageInput.Receivers[i], newMessage)
    IN CreateMessageNotice(sim2, newMessage.Sender, newMessage.Receiver)

\* the body of the loop over messageInput.Receivers, for Receivers[i]
SendToReceiver(sim, messageInput, i) ==
    LET collection == Collection(messageInput.Sender)
        oldMessage == GetPrivateData(collection, messageInput.Receivers[i])
        sim1 == ReadPrivateData(sim, collection, messageInput.Receivers[i])
        appended == AppendMessage(oldMessage, messageInput)
        newMessage == [Sender |-> messageInput.Sender,
                       Receiver |-> messageInput.Receivers[i],
                       Messages |-> appended.messages,
                       Notes |-> appended.notes]
        sim2 == PutPrivateData(sim1, collection, messageInput.Receivers[i], newMessage)
    IN CreateMessageNotice(sim2, newMessage.Sender, newMessage.Receiver)

RECURSIVE SendLoop(_, _, _)
SendLoop(sim, messageInput, i) ==
    IF i > Len(messageInput.Receivers) THEN sim
    ELSE SendLoop(SendToReceiver(sim, messageInput, i), messageInput, i + 1)

\* the body of the loop for Receivers[i] when the stub call `failing` returns
\* an error, if the call is made; [err, sim]
SendToReceiverErr(sim, messageInput, i, failing) ==
    LET collection == Collection(messageInput.Sender)
        oldMessage == GetPrivateData(collection, messageInput.Receivers[i])
        sim1 == ReadPrivateData(sim, collection, messageInput.Receivers[i])
        appended == AppendMessage(oldMessage, messageInput)
        newMessage == [Sender |-> messageInput.Sender,
                       Receiver |-> messageInput.Receivers[i],
                       Messages |-> appended.messages,
                       Notes |-> appended.notes]
        sim2 == PutPrivateData(sim1, collection, messageInput.Receivers[i], newMessage)
        notice == CreateMessageNoticeErr(sim2, newMessage.Sender, newMessage.Receiver, failing)
    IN IF failing = "GetPrivateData"
       THEN [err |-> ErrGetMessage, sim |-> sim]
       ELSE IF failing = "PutPrivateData"
       THEN [err |-> ErrPutMarble, sim |-> sim1]
       ELSE IF notice.err # Nil
       THEN [err |-> ErrCreateNotice, sim |-> notice.sim]
       ELSE notice

RECURSIVE SendLoopErr_DropsError(_, _, _, _, _)
\* faulty variant: the error of a stub call is dropped and the loop goes on to
\* the next receiver
SendLoopErr_DropsError(sim, messageInput, i, failAt, failing) ==
    IF i > Len(messageInput.Receivers) THEN [err |-> Nil, sim |-> sim]
    ELSE IF i = failAt
    THEN SendLoopErr_DropsError(SendToReceiverErr(sim, messageInput, i, failing).sim,
                                messageInput, i + 1, failAt, failing)
    ELSE SendLoopErr_DropsError(SendToReceiver(sim, messageInput, i),
                                messageInput, i + 1, failAt, failing)

RECURSIVE SendLoopErr(_, _, _, _, _)
\* the loop when the stub call `failing` returns an error for Receivers[failAt]
SendLoopErr(sim, messageInput, i, failAt, failing) ==
    IF i > Len(messageInput.Receivers) THEN [err |-> Nil, sim |-> sim]
    ELSE IF i = failAt
    THEN IF SendToReceiverErr(sim, messageInput, i, failing).err # Nil
         THEN SendToReceiverErr(sim, messageInput, i, failing)
         ELSE SendLoopErr(SendToReceiverErr(sim, messageInput, i, failing).sim,
                          messageInput, i + 1, failAt, failing)
    ELSE SendLoopErr(SendToReceiver(sim, messageInput, i),
                     messageInput, i + 1, failAt, failing)

\* faulty variant: the note is not checked
ValidateInput_SkipsNote(messageInput) ==
    IF messageInput = NilBytes THEN ErrNoTransient
    ELSE IF Len(messageInput.Sender) = 0 THEN ErrSender
    ELSE IF Len(messageInput.Receivers) = 0 THEN ErrReceivers
    ELSE IF Len(messageInput.Message) = 0 THEN ErrMessage
    ELSE Nil

ValidateInput(messageInput) ==
    IF messageInput = NilBytes THEN ErrNoTransient
    ELSE IF Len(messageInput.Sender) = 0 THEN ErrSender
    ELSE IF Len(messageInput.Receivers) = 0 THEN ErrReceivers
    ELSE IF Len(messageInput.Message) = 0 THEN ErrMessage
    ELSE IF Len(messageInput.Note) = 0 THEN ErrNote
    ELSE Nil

\* faulty variant: the payload sender is not compared with the caller
VerifySender_NoSenderCheck(messageInput, clientMSPID, peerMSPID) ==
    verifyClientOrgMatchesPeerOrg(clientMSPID, peerMSPID)

VerifySender(messageInput, clientMSPID, peerMSPID) ==
    IF messageInput.Sender \o <<"M", "S", "P">> # clientMSPID THEN ErrSenderMismatch
    ELSE verifyClientOrgMatchesPeerOrg(clientMSPID, peerMSPID)

\* [err, sim, result]
CreateConfidentialMessageBySender(clientMSPID, peerMSPID, messageInput) ==
    IF ValidateInput(messageInput) # Nil
    THEN [err |-> ValidateInput(messageInput), sim |-> EmptySim, result |-> <<>>]
    ELSE IF VerifySender(messageInput, clientMSPID, peerMSPID) # Nil
    THEN [err |-> VerifySender(messageInput, clientMSPID, peerMSPID),
          sim |-> EmptySim, result |-> <<>>]
    ELSE [err |-> Nil, sim |-> SendLoop(EmptySim, messageInput, 1), result |-> <<>>]

\* the execution in which the stub call `failing` returns an error for
\* Receivers[failAt]; [err, sim, result]
CreateConfidentialMessageBySenderErr(clientMSPID, peerMSPID, messageInput, failAt, failing) ==
    IF ValidateInput(messageInput) # Nil
    THEN [err |-> ValidateInput(messageInput), sim |-> EmptySim, result |-> <<>>]
    ELSE IF VerifySender(messageInput, clientMSPID, peerMSPID) # Nil
    THEN [err |-> VerifySender(messageInput, clientMSPID, peerMSPID),
          sim |-> EmptySim, result |-> <<>>]
    ELSE [err |-> SendLoopErr(EmptySim, messageInput, 1, failAt, failing).err,
          sim |-> SendLoopErr(EmptySim, messageInput, 1, failAt, failing).sim,
          result |-> <<>>]

-----------------------------------------------------------------------------
(* ReadConfidentialMessage and MessageNoticeExists *)

\* faulty variant: the caller is compared with the sender, not the receiver
ReadConfidentialMessage_ChecksSender(clientMSPID, sender, receiver) ==
    LET messageAsBytes == GetPrivateData(Collection(sender), receiver)
    IN IF sender \o <<"M", "S", "P">> # clientMSPID
       THEN [err |-> ErrReceiverMismatch, Messages |-> <<>>, Notes |-> <<>>]
       ELSE IF messageAsBytes = NilBytes
       THEN [err |-> ErrNoMessage, Messages |-> <<>>, Notes |-> <<>>]
       ELSE [err |-> Nil,
             Messages |-> messageAsBytes.Messages,
             Notes |-> messageAsBytes.Notes]

\* faulty variant: a missing record is answered with empty lists
ReadConfidentialMessage_EmptyWhenAbsent(clientMSPID, sender, receiver) ==
    LET messageAsBytes == GetPrivateData(Collection(sender), receiver)
    IN IF receiver \o <<"M", "S", "P">> # clientMSPID
       THEN [err |-> ErrReceiverMismatch, Messages |-> <<>>, Notes |-> <<>>]
       ELSE IF messageAsBytes = NilBytes
       THEN [err |-> Nil, Messages |-> <<>>, Notes |-> <<>>]
       ELSE [err |-> Nil,
             Messages |-> messageAsBytes.Messages,
             Notes |-> messageAsBytes.Notes]

\* [err, Messages, Notes]
ReadConfidentialMessage(clientMSPID, sender, receiver) ==
    LET messageAsBytes == GetPrivateData(Collection(sender), receiver)
    IN IF receiver \o <<"M", "S", "P">> # clientMSPID
       THEN [err |-> ErrReceiverMismatch, Messages |-> <<>>, Notes |-> <<>>]
       ELSE IF messageAsBytes = NilBytes
       THEN [err |-> ErrNoMessage, Messages |-> <<>>, Notes |-> <<>>]
       ELSE [err |-> Nil,
             Messages |-> messageAsBytes.Messages,
             Notes |-> messageAsBytes.Notes]

MessageNoticeExists(key) == GetState(key) # Nil

-----------------------------------------------------------------------------
(* Inputs *)

Payloads == {
    [Message |-> <<"x">>, Note |-> <<"p">>],
    [Message |-> <<"y">>, Note |-> <<"q">>] }

Inputs(senders, receiverLists, payloads) ==
    {[Sender |-> s, Receivers |-> rl, Message |-> p.Message, Note |-> p.Note] :
        s \in senders, rl \in receiverLists, p \in payloads}

\* one input for each validation failure
InvalidInputs == {
    NilBytes,
    [Sender |-> <<>>, Receivers |-> <<org1>>, Message |-> <<"x">>, Note |-> <<"p">>],
    [Sender |-> org1, Receivers |-> <<>>, Message |-> <<"x">>, Note |-> <<"p">>],
    [Sender |-> org2, Receivers |-> <<org1>>, Message |-> <<>>, Note |-> <<"p">>],
    [Sender |-> org1, Receivers |-> <<org10>>, Message |-> <<"x">>, Note |-> <<>>] }

\* concurrent clients: both payloads, one or two receivers
ValidInputs == Inputs(SenderNames, {<<org1>>, <<org10>>, <<org1, org10>>}, Payloads)

\* one client at a time: one payload, a receiver may be listed twice
SeqInputs ==
    Inputs(SenderNames, {<<org1>>, <<org10>>, <<org1, org10>>, <<org1, org1>>},
           {[Message |-> <<"x">>, Note |-> <<"p">>]})

\* sends during which a stub call fails: one payload, one or two receivers
FailInputs ==
    Inputs(SenderNames, {<<org1>>, <<org1, org10>>}, {[Message |-> <<"x">>, Note |-> <<"p">>]})

Clients == {"client1", "client2"}
Peers == {MSPID(org1), MSPID(org2)}
Readers == {MSPID(org1), MSPID(org10)}

NoticeKeys == {CreateCompositeKey(mn, <<r, s>>) : r \in ReceiverNames, s \in SenderNames}

-----------------------------------------------------------------------------
(* Transactions: simulation, then validation and commit *)

Tx(fn, caller, peer, input, sender, receiver, out) ==
    [id |-> ntx + 1, snapshot |-> height, fn |-> fn, caller |-> caller, peer |-> peer,
     input |-> input, sender |-> sender, receiver |-> receiver,
     sim |-> out.sim, result |-> out.result]

\* a client submits its next transaction when its last one has been committed
\* or rejected
CanSimulate(maxTx, clients) ==
    /\ resp = NoResponse
    /\ ntx < maxTx
    /\ Cardinality(inflight) < Cardinality(clients)

\* a proposal that returns an error is answered at once and never ordered;
\* one that succeeds becomes a transaction waiting for commit
Endorse(fn, caller, peer, input, sender, receiver, out) ==
    IF out.err # Nil
    THEN /\ resp' = [kind |-> "proposal", fn |-> fn, caller |-> caller, peer |-> peer,
                     input |-> input, err |-> out.err, partial |-> out.sim]
         /\ UNCHANGED <<state, pdata, inflight, ntx, height, sent, fresh, sinceRead>>
    ELSE /\ inflight' = inflight \cup {Tx(fn, caller, peer, input, sender, receiver, out)}
         /\ ntx' = ntx + 1
         /\ UNCHANGED <<state, pdata, height, resp, sent, fresh, sinceRead>>

Send(callers, inputs) ==
    \E caller \in callers, peer \in Peers, messageInput \in inputs :
        Endorse("CreateConfidentialMessageBySender", caller, peer, messageInput,
                <<>>, <<>>,
                CreateConfidentialMessageBySender(caller, peer, messageInput))

\* a send in which one stub call returns an error
SendStubFails(callers, inputs) ==
    \E caller \in callers, messageInput \in inputs, failing \in StubCalls :
        \E failAt \in 1..Len(messageInput.Receivers) :
            Endorse("CreateConfidentialMessageBySender", caller, caller, messageInput,
                    <<>>, <<>>,
                    CreateConfidentialMessageBySenderErr(caller, caller, messageInput,
                                                         failAt, failing))

ReadNotices(callers) ==
    \E caller \in callers, receiver \in ReceiverNames :
        Endorse("ReadMessageNotice", caller, caller, NilBytes, <<>>, receiver,
                ReadMessageNotice(caller, receiver))

CreateNotice(callers, senders) ==
    \E caller \in callers, sender \in senders, receiver \in ReceiverNames :
        Endorse("CreateMessageNotice", caller, caller, NilBytes, sender, receiver,
                [err |-> Nil, result |-> <<>>,
                 sim |-> CreateMessageNotice(EmptySim, sender, receiver)])

\* A query reads the committed state alone; it is evaluated between
\* submissions (every committed state is also reached with nothing in flight).
Quiescent == resp = NoResponse /\ inflight = {}

ReadMessages ==
    /\ Quiescent
    /\ \E caller \in Readers, sender \in SenderNames, receiver \in ReceiverNames :
          LET out == ReadConfidentialMessage(caller, sender, receiver)
          IN resp' = [kind |-> "query", fn |-> "ReadConfidentialMessage",
                      caller |-> caller, sender |-> sender, receiver |-> receiver,
                      err |-> out.err, Messages |-> out.Messages, Notes |-> out.Notes]
    /\ UNCHANGED <<state, pdata, inflight, ntx, height, sent, fresh, sinceRead>>

NoticeExists ==
    /\ Quiescent
    /\ \E key \in NoticeKeys :
          resp' = [kind |-> "query", fn |-> "MessageNoticeExists", key |-> key,
                   err |-> Nil, exists |-> MessageNoticeExists(key)]
    /\ UNCHANGED <<state, pdata, inflight, ntx, height, sent, fresh, sinceRead>>

\* read-version validation: every key read still has the version read, and
\* every range scanned still yields the same keys at the same versions
Valid(tx) ==
    /\ \A r \in tx.sim.rset : Version(state, r.key) = r.version
    /\ \A r \in tx.sim.prset : Version(pdata, r.key) = r.version
    /\ \A q \in tx.sim.rqs :
          LET now == ScanItems(q.objectType, q.attrs)
          IN q.results = [i \in 1..Len(now) |->
                             [key |-> now[i].key, version |-> now[i].version]]

ApplyWrites(db, wset, version) ==
    [k \in DOMAIN db \cup DOMAIN wset |->
        IF k \in DOMAIN wset THEN [value |-> wset[k], version |-> version] ELSE db[k]]

RECURSIVE Elements(_)
Elements(q) == IF Len(q) = 0 THEN {} ELSE {Head(q)} \cup Elements(Tail(q))

\* history of committed sends, per (sender, receiver)
SentAfter(tx) ==
    IF tx.fn = "CreateConfidentialMessageBySender"
    THEN [p \in Orgs \X Orgs |->
            IF p[1] = tx.input.Sender /\ p[2] \in Elements(tx.input.Receivers)
            THEN Append(sent[p], [Message |-> tx.input.Message, Note |-> tx.input.Note,
                                  snapshot |-> tx.snapshot, height |-> height + 1])
            ELSE sent[p]]
    ELSE sent

FreshAfter(tx) ==
    IF tx.fn = "CreateConfidentialMessageBySender"
    THEN [p \in Orgs \X Orgs |->
            IF p[2] = tx.input.Sender /\ p[1] \in Elements(tx.input.Receivers)
            THEN TRUE ELSE fresh[p]]
    ELSE IF tx.fn = "ReadMessageNotice"
    THEN [p \in Orgs \X Orgs |->
            IF p[1] = tx.receiver /\ p[2] \in Elements(tx.result)
            THEN FALSE ELSE fresh[p]]
    ELSE fresh

SinceReadAfter(tx) ==
    IF tx.fn = "CreateConfidentialMessageBySender"
    THEN [p \in Orgs \X Orgs |->
            IF p[2] = tx.input.Sender /\ p[1] \in Elements(tx.input.Receivers)
            THEN (IF sinceRead[p] < 2 THEN sinceRead[p] + 1 ELSE 2)
            ELSE sinceRead[p]]
    ELSE IF tx.fn = "ReadMessageNotice"
    THEN [p \in Orgs \X Orgs |-> IF p[1] = tx.receiver THEN 0 ELSE sinceRead[p]]
    ELSE sinceRead

Commit ==
    /\ resp = NoResponse
    /\ \E tx \in inflight :
          /\ inflight' = inflight \ {tx}
          /\ IF Valid(tx)
             THEN /\ state' = ApplyWrites(state, tx.sim.wset, height + 1)
                  /\ pdata' = ApplyWrites(pdata, tx.sim.pwset, height + 1)
                  /\ height' = height + 1
                  /\ sent' = SentAfter(tx)
                  /\ fresh' = FreshAfter(tx)
                  /\ sinceRead' = SinceReadAfter(tx)
                  /\ resp' = [kind |-> "commit", tx |-> tx, code |-> "VALID"]
             ELSE /\ resp' = [kind |-> "commit", tx |-> tx, code |-> "MVCC_READ_CONFLICT"]
                  /\ UNCHANGED <<state, pdata, height, sent, fresh, sinceRead>>
    /\ UNCHANGED ntx

Deliver ==
    /\ resp # NoResponse
    /\ resp' = NoResponse
    /\ UNCHANGED <<state, pdata, inflight, ntx, height, sent, fresh, sinceRead>>

Init ==
    /\ state = <<>>
    /\ pdata = <<>>
    /\ inflight = {}
    /\ ntx = 0
    /\ height = 0
    /\ resp = NoResponse
    /\ sent = [p \in Orgs \X Orgs |-> <<>>]
    /\ fresh = [p \in Orgs \X Orgs |-> FALSE]
    /\ sinceRead = [p \in Orgs \X Orgs |-> 0]

\* clients of every organization submit concurrently
Next ==
    \/ CanSimulate(MaxTx, Clients) /\ Send(MSPIDs, ValidInputs \cup InvalidInputs)
    \/ CanSimulate(MaxTx, Clients) /\ SendStubFails(Peers, FailInputs)
    \/ CanSimulate(MaxTx, Clients) /\ ReadNotices({MSPID(org1)})
    \/ CanSimulate(MaxTx, Clients) /\ CreateNotice({MSPID(org2)}, {org2})
    \/ ReadMessages
    \/ NoticeExists
    \/ Commit
    \/ Deliver

Spec == Init /\ [][Next]_vars

\* one transaction at a time: each is committed before the next is submitted
NextSeq ==
    \/ CanSimulate(MaxSeqTx, {"client1"}) /\ Send(Peers, SeqInputs)
    \/ CanSimulate(MaxSeqTx, {"client1"}) /\ SendStubFails(Peers, FailInputs)
    \/ CanSimulate(MaxSeqTx, {"client1"}) /\ ReadNotices({MSPID(org1)})
    \/ CanSimulate(MaxSeqTx, {"client1"}) /\ CreateNotice({MSPID(org2)}, {org2})
    \/ ReadMessages
    \/ NoticeExists
    \/ Commit
    \/ Deliver

SpecSeq == Init /\ [][NextSeq]_vars

-----------------------------------------------------------------------------
(* Reading the committed state and the responses *)

NoticeKey(receiver, sender) == CreateCompositeKey(mn, <<receiver, sender>>)
Notice(receiver, sender) == GetState(NoticeKey(receiver, sender))
Mailbox(sender, receiver) == GetPrivateData(Collection(sender), receiver)

IsSend(tx) == tx.fn = "CreateConfidentialMessageBySender"
IsScan(tx) == tx.fn = "ReadMessageNotice"

CommittedValid == resp.kind = "commit" /\ resp.code = "VALID"
Rejected == resp.kind = "commit" /\ resp.code = "MVCC_READ_CONFLICT"
ReadResponse == resp.kind = "query" /\ resp.fn = "ReadConfidentialMessage"
SendRefused == resp.kind = "proposal" /\ resp.fn = "CreateConfidentialMessageBySender"

Occurrences(x, q) == Cardinality({i \in 1..Len(q) : q[i] = x})

MessagesOf(log) == [i \in 1..Len(log) |-> log[i].Message]
NotesOf(log) == [i \in 1..Len(log) |-> log[i].Note]

-----------------------------------------------------------------------------
(* Properties *)

\* C1: once a send A->B has committed, every later committed readNotices(B)
\* returns a list that contains A, whether the notice (B, A) is unread or
\* already read (send, readNotices, readNotices returns A both times).
C1_ScanReturnsEverySender ==
    (CommittedValid /\ IsScan(resp.tx)) =>
        \A A \in Orgs :
            sent[<<A, resp.tx.receiver>>] # <<>> => A \in Elements(resp.tx.result)

\* C2: after n committed sends from A to B the mailbox record (A, B) holds
\* exactly the n messages and n notes of those sends, in commit order, and
\* readMessages(A, B) called by B returns exactly them; with no committed send
\* there is no record. (The log of committed sends only grows at its end, so
\* the record is only ever extended at its end.)
C2_MailboxIsTheCommittedSends ==
    /\ \A A \in Orgs, B \in Orgs :
          IF sent[<<A, B>>] = <<>>
          THEN Mailbox(A, B) = NilBytes
          ELSE /\ Mailbox(A, B) # NilBytes
               /\ Mailbox(A, B).Messages = MessagesOf(sent[<<A, B>>])
               /\ Mailbox(A, B).Notes = NotesOf(sent[<<A, B>>])
    /\ (ReadResponse /\ resp.err = Nil) =>
          /\ resp.Messages = MessagesOf(sent[<<resp.sender, resp.receiver>>])
          /\ resp.Notes = NotesOf(sent[<<resp.sender, resp.receiver>>])

C2_TwoMessagesReadInOrder ==
    /\ ReadResponse
    /\ resp.err = Nil
    /\ resp.Messages = << <<"x">>, <<"y">> >>
    /\ resp.Notes = << <<"p">>, <<"q">> >>

\* C3: two committed sends A->B with no committed readNotices(B) between them
\* leave the notice (B, A) unread, and the next committed readNotices(B)
\* returns A exactly once.
C3_TwoSendsOneNotice ==
    [][\A A \in Orgs, B \in Orgs :
          /\ sinceRead[<<B, A>>] = 2 => Notice(B, A) = "1"
          /\ (/\ sinceRead[<<B, A>>] = 2
              /\ resp'.kind = "commit"
              /\ resp'.code = "VALID"
              /\ IsScan(resp'.tx)
              /\ resp'.tx.receiver = B)
             => Occurrences(A, resp'.tx.result) = 1]_vars

\* C4: two send(A->B) transactions simulated on the same snapshot are never
\* both committed: of any two committed sends A->B the later one was simulated
\* on a state that held the earlier one, so the record holds every committed
\* message and a rejected send leaves nothing in it.
C4_NoLostSend ==
    \A A \in Orgs, B \in Orgs :
        /\ \A i \in 1..Len(sent[<<A, B>>]), j \in 1..Len(sent[<<A, B>>]) :
              i < j => sent[<<A, B>>][j].snapshot >= sent[<<A, B>>][i].height
        /\ sent[<<A, B>>] # <<>> =>
              /\ Mailbox(A, B) # NilBytes
              /\ Len(Mailbox(A, B).Messages) = Len(sent[<<A, B>>])

\* a send is rejected whose snapshot is older than the last committed send to
\* one of its mailboxes
C4_StaleSendRejected ==
    /\ Rejected
    /\ IsSend(resp.tx)
    /\ \E r \in Elements(resp.tx.input.Receivers) :
          LET log == sent[<<resp.tx.input.Sender, r>>]
          IN /\ log # <<>>
             /\ log[Len(log)].snapshot = resp.tx.snapshot
             /\ Len(Mailbox(resp.tx.input.Sender, r).Messages) = Len(log)

\* C5: no unread notice is lost: whenever a send A->B has committed after the
\* last committed readNotices(B) that returned A, the notice (B, A) is unread.
C5_NoUnreadNoticeLost ==
    \A A \in Orgs, B \in Orgs : fresh[<<B, A>>] => Notice(B, A) = "1"

\* a send simulated before a drain of its notice committed is rejected
C5_SendRacingDrainRejected ==
    /\ Rejected
    /\ IsSend(resp.tx)
    /\ \E r \in Elements(resp.tx.input.Receivers) :
          /\ Notice(r, resp.tx.input.Sender) = "0"
          /\ state[NoticeKey(r, resp.tx.input.Sender)].version > resp.tx.snapshot
          /\ Version(pdata, <<Collection(resp.tx.input.Sender), r>>) <= resp.tx.snapshot

IdentityMismatch(input, caller, peer) ==
    input.Sender \o <<"M", "S", "P">> # caller \/ caller # peer

\* C6 (as stated): a send whose payload sender differs from the caller, or
\* whose caller's organization differs from the node's, returns an
\* authorization error, for every receivers list.
C6_MismatchIsAuthorizationError ==
    (/\ SendRefused
     /\ resp.input # NilBytes
     /\ Len(resp.input.Sender) > 0
     /\ IdentityMismatch(resp.input, resp.caller, resp.peer))
    => resp.err \in AuthorizationErrors

\* C6 (amended): such a send is refused with an authorization error when its
\* four fields are non-empty and with the validation error of its first empty
\* field otherwise; in both cases it is never ordered, so it writes nothing:
\* every send waiting for commit or committed passed both identity checks.
C6_MismatchIsRefused ==
    /\ (/\ SendRefused
        /\ resp.input # NilBytes
        /\ IdentityMismatch(resp.input, resp.caller, resp.peer))
       => IF /\ Len(resp.input.Sender) > 0
             /\ Len(resp.input.Receivers) > 0
             /\ Len(resp.input.Message) > 0
             /\ Len(resp.input.Note) > 0
          THEN resp.err \in AuthorizationErrors
          ELSE resp.err \in ValidationErrors
    /\ \A tx \in inflight :
          IsSend(tx) => ~IdentityMismatch(tx.input, tx.caller, tx.peer)
    /\ (resp.kind = "commit" /\ IsSend(resp.tx))
          => ~IdentityMismatch(resp.tx.input, resp.tx.caller, resp.tx.peer)

C6_MismatchedSendRefused ==
    /\ SendRefused
    /\ resp.input \in ValidInputs
    /\ resp.caller = resp.peer
    /\ resp.input.Sender \o <<"M", "S", "P">> # resp.caller
    /\ resp.err = ErrSenderMismatch
    /\ Mailbox(org2, org1) # NilBytes

\* C7: when the caller's organization is not the named receiver, readNotices
\* fails and no notice of that receiver changes state: no committed
\* readNotices(B) by another caller returns or drains B's notices.
C7_OnlyReceiverScans ==
    (CommittedValid /\ IsScan(resp.tx) /\ resp.tx.caller # MSPID(resp.tx.receiver))
    => (resp.tx.result = <<>> /\ DOMAIN resp.tx.sim.wset = {})

\* C8: readMessages(sender, receiver) returns mailbox content only when the
\* caller's organization is the named receiver; every other caller gets the
\* authorization error and no messages or notes.
C8_OnlyReceiverReads ==
    ReadResponse =>
        IF resp.caller = MSPID(resp.receiver)
        THEN resp.err # ErrReceiverMismatch
        ELSE /\ resp.err = ErrReceiverMismatch
             /\ resp.Messages = <<>>
             /\ resp.Notes = <<>>

\* the sender itself is refused the messages it sent
C8_SenderRefused ==
    /\ ReadResponse
    /\ resp.caller = MSPID(resp.sender)
    /\ resp.caller # MSPID(resp.receiver)
    /\ Mailbox(resp.sender, resp.receiver) # NilBytes
    /\ resp.err = ErrReceiverMismatch

\* C9: a notice exists for (receiver, sender) if and only if the mailbox
\* record (sender, receiver) exists with at least one message, and a notice
\* that exists is unread ("1") or read ("0").
C9_NoticeIffMailbox ==
    \A r \in Orgs, s \in Orgs :
        /\ Notice(r, s) # Nil <=>
              (Mailbox(s, r) # NilBytes /\ Len(Mailbox(s, r).Messages) >= 1)
        /\ Notice(r, s) \in {Nil, "0", "1"}

\* C10: a committed send by A with receivers list R changes only the mailbox
\* records (A, r) and the notices (r, A) for r in R, and every record (A, B)
\* names A as its sender.
C10_SendFrame ==
    [][(resp'.kind = "commit" /\ resp'.code = "VALID" /\ IsSend(resp'.tx)) =>
          \A s \in Orgs, r \in Orgs :
              /\ Mailbox(s, r)' # Mailbox(s, r) =>
                    (s = resp'.tx.input.Sender /\ r \in Elements(resp'.tx.input.Receivers))
              /\ Notice(r, s)' # Notice(r, s) =>
                    (s = resp'.tx.input.Sender /\ r \in Elements(resp'.tx.input.Receivers))
              /\ Mailbox(s, r)' # NilBytes => Mailbox(s, r)'.Sender = s]_vars

\* a send of one sender committed into a state holding the mail and the notice
\* of another sender to the same receiver
C10_TwoSendersOneReceiver ==
    /\ CommittedValid
    /\ IsSend(resp.tx)
    /\ resp.tx.input.Sender = org1
    /\ Mailbox(org1, org1) # NilBytes
    /\ Mailbox(org2, org1) # NilBytes
    /\ Notice(org1, org1) = "1"
    /\ Notice(org1, org2) = "1"

\* the keys a simulated transaction read or wrote, public and private
PublicKeys(tx) == {r.key : r \in tx.sim.rset} \cup DOMAIN tx.sim.wset
PrivateKeys(tx) == {r.key : r \in tx.sim.prset} \cup DOMAIN tx.sim.pwset

\* C11: two sends of different senders waiting for commit read and write
\* disjoint keys (mailbox keys (A, B) and (C, B), notice keys (B, A) and
\* (B, C)); when both were simulated on the current state both are valid, and
\* the commit of one never changes whether the other is valid; once both have
\* committed, both mailbox records and both notices are present.
C11_DifferentSendersNeverConflict ==
    [][/\ \A t1 \in inflight, t2 \in inflight :
             (IsSend(t1) /\ IsSend(t2) /\ t1.input.Sender # t2.input.Sender) =>
                /\ PublicKeys(t1) \cap PublicKeys(t2) = {}
                /\ PrivateKeys(t1) \cap PrivateKeys(t2) = {}
                /\ (t1.snapshot = height /\ t2.snapshot = height) =>
                      (Valid(t1) /\ Valid(t2))
                /\ (resp'.kind = "commit" /\ resp'.tx = t1) =>
                      (Valid(t2)' <=> Valid(t2))
       /\ \A A \in Orgs, C \in Orgs, B \in Orgs :
             (sent'[<<A, B>>] # <<>> /\ sent'[<<C, B>>] # <<>>) =>
                /\ Mailbox(A, B)' # NilBytes /\ Mailbox(C, B)' # NilBytes
                /\ Notice(B, A)' # Nil /\ Notice(B, C)' # Nil]_vars

\* two sends of different senders to one receiver, simulated on the same
\* state, have both committed
C11_ConcurrentSendersBothCommitted ==
    /\ CommittedValid
    /\ IsSend(resp.tx)
    /\ \E A \in Orgs, C \in Orgs, B \in Elements(resp.tx.input.Receivers) :
          /\ A # C
          /\ C = resp.tx.input.Sender
          /\ sent[<<A, B>>] # <<>>
          /\ sent[<<C, B>>] # <<>>
          /\ sent[<<A, B>>][Len(sent[<<A, B>>])].snapshot = resp.tx.snapshot
          /\ sent[<<A, B>>][Len(sent[<<A, B>>])].height = height - 1
          /\ Notice(B, A) = "1"
          /\ Notice(B, C) = "1"

SendKeys(input) == {<<Collection(input.Sender), input.Receivers[i]>> : i \in 1..Len(input.Receivers)}

\* C12: a send is all or nothing. When a stub call fails for the i-th receiver
\* the call returns an error, the updates buffered for the receivers before it
\* are dropped (nothing is committed and nothing is left waiting for commit);
\* a send waiting for commit holds the updates of every listed receiver, and
\* its commit applies all of them together or, when rejected, none.
C12_SendAllOrNothing ==
    [][/\ resp'.kind = "proposal" =>
             (state' = state /\ pdata' = pdata /\ inflight' = inflight)
       /\ \A tx \in inflight' :
             IsSend(tx) => DOMAIN tx.sim.pwset = SendKeys(tx.input)
       /\ (resp'.kind = "commit" /\ IsSend(resp'.tx)) =>
             IF resp'.code = "VALID"
             THEN \A A \in Orgs, r \in Orgs :
                     (A = resp'.tx.input.Sender /\ r \in Elements(resp'.tx.input.Receivers)) =>
                        /\ Version(pdata', <<Collection(A), r>>) = height'
                        /\ Mailbox(A, r)' # NilBytes
                        /\ Mailbox(A, r)' # Mailbox(A, r)
                        /\ Notice(r, A)' = "1"
             ELSE state' = state /\ pdata' = pdata]_vars

\* the send failed at its second receiver with the first receiver's record and
\* notice already buffered, and neither is in the committed state
C12_FailedAtSecondReceiver ==
    /\ SendRefused
    /\ resp.err \in StorageErrors
    /\ Len(resp.input.Receivers) = 2
    /\ <<Collection(resp.input.Sender), resp.input.Receivers[1]>> \in DOMAIN resp.partial.pwset
    /\ NoticeKey(resp.input.Receivers[1], resp.input.Sender) \in DOMAIN resp.partial.wset
    /\ Mailbox(resp.input.Sender, resp.input.Receivers[1]) = NilBytes
    /\ Notice(resp.input.Receivers[1], resp.input.Sender) = Nil
    /\ height > 0

HasEmptyField(input) ==
    \/ input = NilBytes
    \/ Len(input.Sender) = 0
    \/ Len(input.Receivers) = 0
    \/ Len(input.Message) = 0
    \/ Len(input.Note) = 0

\* C13: a send whose sender, receivers list, message or note is empty, or
\* whose transient payload is missing, returns a validation error whoever the
\* caller is (the identity checks are not reached), having read and written
\* nothing; no such send is ever waiting for commit or committed.
C13_InvalidSendTouchesNothing ==
    /\ (SendRefused /\ HasEmptyField(resp.input)) =>
          /\ resp.err \in ValidationErrors
          /\ resp.partial = EmptySim
    /\ \A tx \in inflight : IsSend(tx) => ~HasEmptyField(tx.input)
    /\ (resp.kind = "commit" /\ IsSend(resp.tx)) => ~HasEmptyField(resp.tx.input)

\* a send with an empty note, by the organization it names as sender on its
\* own node, refused when that sender already has a record for the receiver
C13_EmptyNoteRefused ==
    /\ SendRefused
    /\ resp.input # NilBytes
    /\ Len(resp.input.Sender) > 0
    /\ Len(resp.input.Note) = 0
    /\ ~IdentityMismatch(resp.input, resp.caller, resp.peer)
    /\ resp.err = ErrNote
    /\ Mailbox(resp.input.Sender, resp.input.Receivers[1]) # NilBytes

\* C14: every committed change of a record in a collection S+"MSPCollection"
\* is made by a send whose payload sender is S, whose caller is S+"MSP" and
\* which ran on a node of S+"MSP"; a transaction of any other operation
\* has an empty private write set, and a query changes nothing.
C14_OnlySenderWritesItsCollection ==
    [][/\ \A tx \in inflight' :
             ~IsSend(tx) => DOMAIN tx.sim.pwset = {}
       /\ pdata' # pdata =>
             /\ resp'.kind = "commit"
             /\ resp'.code = "VALID"
             /\ IsSend(resp'.tx)
             /\ resp'.tx.caller = MSPID(resp'.tx.input.Sender)
             /\ resp'.tx.peer = resp'.tx.caller
             /\ \A k \in DOMAIN pdata' :
                   (k \notin DOMAIN pdata \/ pdata'[k] # pdata[k]) =>
                      /\ k[1] = Collection(resp'.tx.input.Sender)
                      /\ pdata'[k].value.Sender = resp'.tx.input.Sender]_vars

\* both senders have written their own collections, and the last commit was a
\* send by org2 on its own node
C14_TwoCollectionsWritten ==
    /\ CommittedValid
    /\ IsSend(resp.tx)
    /\ resp.tx.caller = MSPID(org2)
    /\ resp.tx.peer = MSPID(org2)
    /\ \E r1 \in Orgs, r2 \in Orgs :
          /\ Version(pdata, <<Collection(org1), r1>>) > 0
          /\ Version(pdata, <<Collection(org2), r2>>) = height

\* C15: readMessages(A, B) called by B fails with the not-found error exactly
\* when no send A->B has committed, and returns a non-empty list of messages
\* and of notes whenever one has; in both cases it leaves every mailbox record
\* and every notice as it was.
C15_NotFoundIffNeverSent ==
    [][(resp'.kind = "query" /\ resp'.fn = "ReadConfidentialMessage") =>
          /\ state' = state
          /\ pdata' = pdata
          /\ inflight' = inflight
          /\ resp'.caller = MSPID(resp'.receiver) =>
                IF sent[<<resp'.sender, resp'.receiver>>] = <<>>
                THEN resp'.err = ErrNoMessage
                ELSE /\ resp'.err = Nil
                     /\ Len(resp'.Messages) >= 1
                     /\ Len(resp'.Notes) >= 1]_vars

\* the receiver is told there is no message from one sender while it has mail
\* from the other sender, and that sender has mail for another receiver
C15_NotFoundBesideOtherMail ==
    /\ ReadResponse
    /\ resp.caller = MSPID(resp.receiver)
    /\ resp.err = ErrNoMessage
    /\ \E C \in Orgs : C # resp.sender /\ Mailbox(C, resp.receiver) # NilBytes
    /\ \E r \in Orgs : r # resp.receiver /\ Mailbox(resp.sender, r) # NilBytes

IsUpsert(tx) == tx.fn = "CreateMessageNotice"

\* C16: upsertNotice(receiver, sender) reads the notice key and nothing else;
\* on an absent or a read notice it writes "1" to that key, once; on an unread
\* notice it writes nothing (its write set is empty). After it has committed
\* the notice is unread in every case.
C16_UpsertTransitions ==
    [][/\ \A tx \in inflight' \ inflight :
             IsUpsert(tx) =>
                \A r \in Orgs, s \in Orgs :
                    (r = tx.receiver /\ s = tx.sender) =>
                       /\ tx.sim.rset = {[key |-> NoticeKey(r, s),
                                          version |-> Version(state, NoticeKey(r, s))]}
                       /\ tx.sim.rqs = {}
                       /\ tx.sim.prset = {}
                       /\ tx.sim.pwset = <<>>
                       /\ IF Notice(r, s) = "1"
                          THEN tx.sim.wset = <<>>
                          ELSE /\ DOMAIN tx.sim.wset = {NoticeKey(r, s)}
                               /\ tx.sim.wset[NoticeKey(r, s)] = "1"
       /\ (resp'.kind = "commit" /\ resp'.code = "VALID" /\ IsUpsert(resp'.tx)) =>
             \A r \in Orgs, s \in Orgs :
                 (r = resp'.tx.receiver /\ s = resp'.tx.sender) =>
                    /\ Notice(r, s)' = "1"
                    /\ (Notice(r, s) = "1") <=> (state' = state)]_vars

\* a committed call found the notice read and set it back to unread
C16_ReadNoticeSetUnread ==
    /\ CommittedValid
    /\ IsUpsert(resp.tx)
    /\ DOMAIN resp.tx.sim.wset # {}
    /\ \E r \in resp.tx.sim.rset : r.version > 0
    /\ Notice(resp.tx.receiver, resp.tx.sender) = "1"

C18_MessagesAndNotesAligned ==
    /\ \A A \in Orgs, B \in Orgs :
          Mailbox(A, B) # NilBytes =>
             /\ Len(Mailbox(A, B).Messages) = Len(Mailbox(A, B).Notes)
             /\ Len(Mailbox(A, B).Messages) >= 1
             /\ Len(Mailbox(A, B).Messages) = Len(sent[<<A, B>>])
             /\ \A i \in 1..Len(Mailbox(A, B).Messages) :
                   /\ Mailbox(A, B).Messages[i] = sent[<<A, B>>][i].Message
                   /\ Mailbox(A, B).Notes[i] = sent[<<A, B>>][i].Note
    /\ \A tx \in inflight : \A k \in DOMAIN tx.sim.pwset :
          /\ Len(tx.sim.pwset[k].Messages) = Len(tx.sim.pwset[k].Notes)
          /\ Len(tx.sim.pwset[k].Messages) >= 1

\* a record of two different messages, each beside its own note
C18_TwoPairsAligned ==
    /\ resp = NoResponse
    /\ Mailbox(org2, org10) # NilBytes
    /\ Mailbox(org2, org10).Messages = << <<"y">>, <<"x">> >>
    /\ Mailbox(org2, org10).Notes = << <<"q">>, <<"p">> >>
    /\ Mailbox(org2, org1) # NilBytes

MailboxLen(sender, receiver) ==
    IF Mailbox(sender, receiver) = NilBytes THEN 0 ELSE Len(Mailbox(sender, receiver).Messages)

\* C19: a committed send in whose receivers list r appears k times has grown
\* the mailbox record (sender, r) by k messages and k notes.
C19_DuplicateReceiverGrowsByK ==
    [][(resp'.kind = "commit" /\ resp'.code = "VALID" /\ IsSend(resp'.tx)) =>
          \A A \in Orgs, r \in Orgs :
              (A = resp'.tx.input.Sender /\ r \in Elements(resp'.tx.input.Receivers)) =>
                 /\ MailboxLen(A, r)' =
                       MailboxLen(A, r) + Occurrences(r, resp'.tx.input.Receivers)
                 /\ Len(Mailbox(A, r)'.Notes) =
                       MailboxLen(A, r) + Occurrences(r, resp'.tx.input.Receivers)]_vars

====
